---- MODULE Spec2Model ----
(***************************************************************************)
(* FileHarmony (src/FileHarmony.py): a checkable, lazily loaded tree of    *)
(* drives, folders and audio files, and the "Rename Checked Files" run     *)
(* that renames every selected file to the title held in its metadata.     *)
(*                                                                         *)
(* A file or folder name is a pair <<stem, ext>> standing for the string   *)
(* stem + ext; every stem of the model is one character long, so the       *)
(* order of two names is decided by the code of the first character and    *)
(* then by the extension.  A path is the sequence of its names; the empty  *)
(* sequence stands for Python's None.  The program runs on Windows only    *)
(* (list_drives calls ctypes.windll), so path lookups ignore case.         *)
(***************************************************************************)
EXTENDS Naturals, Sequences, FiniteSets

VARIABLES tree, loc, tag, unreadable, pc, to_rename, idx, renamed,
          folders_to_refresh, report, loc0, log, moves, ran

vars == <<tree, loc, tag, unreadable, pc, to_rename, idx, renamed,
          folders_to_refresh, report, loc0, log, moves, ran>>

(***************************************************************************)
(* tree                the top-level items of the QTreeWidget              *)
(* loc, tag            the path and the metadata of each audio file        *)
(* unreadable          the folders os.scandir cannot list                  *)
(* pc, idx             where rename_files is: "idle", or in its loop at    *)
(*                     entry idx of to_rename                              *)
(* to_rename, renamed, folders_to_refresh   the locals of rename_files     *)
(* report              the count the message box shows                     *)
(* loc0, log, moves, ran   history: the paths when the run began, what     *)
(*                     became of each entry, how often each file was       *)
(*                     renamed by the runs made in succession, whether a   *)
(*                     run was made since the last other event             *)
(***************************************************************************)

(***************************************************************************)
(* Bound of the model: the number of audio files.                          *)
(***************************************************************************)
NumFiles == 2

FileIds == 1..NumFiles

(***************************************************************************)
(* Strings.                                                                *)
(***************************************************************************)
None == <<>>

SUPPORTED_EXTS == {".mp3", ".flac", ".wav"}

LOADING == <<"Loading...", "">>

\* str.lower() on the two halves of a name
LowerStem(s) == IF s = "B" THEN "b" ELSE IF s = "D" THEN "d" ELSE s

LowerExt(e) == IF e = ".MP3" THEN ".mp3" ELSE e

Lower(name) == <<LowerStem(name[1]), LowerExt(name[2])>>

\* code point of the one character of a lower-cased stem
Code(s) == CASE s = "a" -> 97 [] s = "b" -> 98 [] s = "c" -> 99
             [] s = "d" -> 100 [] s = "p" -> 112 [] s = "s" -> 115
             [] s = "t" -> 116 [] s = "x" -> 120 [] OTHER -> 108

\* rank of a lower-cased extension in string order ("" is a prefix of all)
ExtRank(e) == CASE e = "" -> 0 [] e = ".flac" -> 1 [] e = ".mp3" -> 2
                [] e = ".txt" -> 3 [] e = ".wav" -> 4 [] OTHER -> 5

\* Python's < on two strings stem + ext
StrLess(n1, n2) ==
    \/ Code(n1[1]) < Code(n2[1])
    \/ Code(n1[1]) = Code(n2[1]) /\ ExtRank(n1[2]) < ExtRank(n2[2])

\* name.lower().endswith(SUPPORTED_EXTS)
EndsWithSupported(name) == LowerExt(name[2]) \in SUPPORTED_EXTS

(***************************************************************************)
(* Paths: os.path.split, os.path.join, case folding of a lookup.           *)
(***************************************************************************)
Front(p) == SubSeq(p, 1, Len(p) - 1)

Last(p) == p[Len(p)]

Fold(p) == [i \in 1..Len(p) |-> Lower(p[i])]

IsPrefix(d, p) == Len(d) <= Len(p) /\ SubSeq(p, 1, Len(d)) = d

(***************************************************************************)
(* The disk.  The folders, one entry that is neither a file nor a folder   *)
(* (a dangling link) and one file of an unsupported type are fixed; the    *)
(* audio files are added and renamed.                                      *)
(***************************************************************************)
DriveD == << <<"D", "">> >>
DirS == DriveD \o << <<"s", "">> >>
DirSS == DirS \o << <<"s", "">> >>

Dirs == {DriveD, DirS, DirSS}

Specials == {DriveD \o << <<"p", "">> >>}

OtherFiles == {DirS \o << <<"t", ".txt">> >>}

\* the name each audio file has when it first appears on disk
FileName(f) == CASE f = 1 -> <<"a", ".MP3">>
                 [] f = 2 -> <<"B", ".mp3">>
                 [] OTHER -> <<"c", ".wav">>

\* what the tag of a file holds: a title (a sequence of stems, more than one
\* when the title string contains a path separator), no title, or nothing
\* the reader can parse
NoTitle == <<"-">>
Unreadable == <<"!">>
Titles == {<<"x">>, <<"s", "x">>}
Tags == Titles \cup {NoTitle, Unreadable}

\* the tags and the folders each audio file of the model is tried with
TagsOf(f) == CASE f = 1 -> {<<"x">>, <<"s", "x">>, NoTitle, Unreadable}
               [] f = 2 -> {<<"x">>, Unreadable}
               [] OTHER -> {<<"x">>}

HomesOf(f) == CASE f = 1 -> {DriveD, DirS}
                [] f = 2 -> {DirS}
                [] OTHER -> {DirSS}

AudioPaths(l) == {l[f] : f \in FileIds} \ {None}

RegularFiles(l) == OtherFiles \cup AudioPaths(l)

AllPaths(l) == Dirs \cup Specials \cup RegularFiles(l)

\* the entry a path names on the case-insensitive volume, None when there is
\* none (no two entries of a volume differ in case only)
Resolve(l, p) ==
    IF p \in AllPaths(l) THEN p
    ELSE LET folded == Fold(p)
             named == {q \in AllPaths(l) : Fold(q) = folded}
         IN IF named = {} THEN None ELSE CHOOSE q \in named : TRUE

Exists(l, p) == Resolve(l, p) # None

IsDir(l, p) == Resolve(l, p) \in Dirs

IsFile(l, p) == Resolve(l, p) \in RegularFiles(l)

\* os.scandir(d): the immediate entries of d
Entries(l, d) == {p \in AllPaths(l) : Len(p) = Len(d) + 1 /\ Front(p) = d}

(***************************************************************************)
(* Tree items.                                                             *)
(***************************************************************************)
Item(text, data, check, kids) ==
    [text |-> text, data |-> data, check |-> check, kids |-> kids]

\* the "Loading..." child: no path, no check box of its own (checkState()
\* of an item without the role is Unchecked)
Placeholder == Item(LOADING, None, "Unchecked", <<>>)

RECURSIVE IpsOf(_)
\* the index paths of all items below a list of items
IpsOf(kids) ==
    UNION {{<<i>>} \cup {<<i>> \o q : q \in IpsOf(kids[i].kids)} : i \in DOMAIN kids}

RECURSIVE ItemAt(_, _)
ItemAt(kids, ip) ==
    IF Len(ip) = 1 THEN kids[ip[1]] ELSE ItemAt(kids[ip[1]].kids, Tail(ip))

RECURSIVE ReplaceAt(_, _, _)
ReplaceAt(kids, ip, n) ==
    [kids EXCEPT ![ip[1]] =
        IF Len(ip) = 1 THEN n ELSE [@ EXCEPT !.kids = ReplaceAt(@, Tail(ip), n)]]

RECURSIVE setCheckState(_, _)
RECURSIVE on_item_changed(_)
\* QTreeWidgetItem.setCheckState: a value equal to the stored one changes
\* nothing and emits nothing; otherwise itemChanged runs on_item_changed
setCheckState(item, state) ==
    IF item.check = state THEN item
    ELSE on_item_changed([item EXCEPT !.check = state])

on_item_changed(item) ==
    [item EXCEPT !.kids = [i \in 1..Len(item.kids) |-> setCheckState(item.kids[i], item.check)]]

(***************************************************************************)
(* Lazy loading of a folder.                                               *)
(***************************************************************************)
\* the key of sorted(): (not e.is_dir(), e.name.lower())
KeyLess(p, q) ==
    \/ p \in Dirs /\ q \notin Dirs
    \/ (p \in Dirs) = (q \in Dirs) /\ StrLess(Lower(Last(p)), Lower(Last(q)))

RECURSIVE Sorted(_)
Sorted(S) ==
    IF S = {} THEN <<>>
    ELSE LET m == CHOOSE x \in S : \A y \in S \ {x} : KeyLess(x, y)
         IN <<m>> \o Sorted(S \ {m})

\* the item populate_tree creates for one entry
NewItem(e) ==
    Item(Last(e), e, "Unchecked", IF e \in Dirs THEN <<Placeholder>> ELSE <<>>)

\* the entries populate_tree does not skip
Shown(l, e) == ~(e \in RegularFiles(l) /\ ~EndsWithSupported(Last(e)))

populate_tree(l, unread, path, parent_item) ==
    IF path \in unread \/ ~IsDir(l, path)
    THEN parent_item
    ELSE LET Keep(e) == Shown(l, e)
             shown == SelectSeq(Sorted(Entries(l, path)), Keep)
         IN [parent_item EXCEPT
                !.kids = @ \o [i \in 1..Len(shown) |-> NewItem(shown[i])]]

on_item_expanded(l, unread, item) ==
    IF item.data = None \/ (Len(item.kids) > 0 /\ item.kids[1].text # LOADING)
    THEN item
    ELSE LET loaded == populate_tree(l, unread, item.data, [item EXCEPT !.kids = <<>>])
         IN IF loaded.check \in {"Checked", "PartiallyChecked"}
            THEN [loaded EXCEPT
                    !.kids = [i \in 1..Len(loaded.kids) |->
                                 setCheckState(loaded.kids[i], loaded.check)]]
            ELSE loaded

(***************************************************************************)
(* find_item_by_path: the first item, depth first, that stores the path.   *)
(***************************************************************************)
NoItem == <<>>

RECURSIVE recurse(_, _, _)
RECURSIVE FirstFound(_, _, _, _)
recurse(item, ip, path) ==
    IF item.data = path THEN ip ELSE FirstFound(item.kids, ip, 1, path)

FirstFound(kids, ip, i, path) ==
    IF i > Len(kids) THEN NoItem
    ELSE LET found == recurse(kids[i], ip \o <<i>>, path)
         IN IF found # NoItem THEN found ELSE FirstFound(kids, ip, i + 1, path)

find_item_by_path(T, path) == FirstFound(T, <<>>, 1, path)

(***************************************************************************)
(* Selection: gather_checked and the os.walk it runs on a checked folder.  *)
(* The order in which a folder lists its entries is the file system's to   *)
(* choose: `order` ranks the audio files, the fixed entries come first.    *)
(***************************************************************************)
Orders == {o \in [FileIds -> FileIds] : \A i, j \in FileIds : i # j => o[i] # o[j]}

\* the orders to tell apart: when no two audio files share a folder, every
\* order lists the folders alike
ListingOrders(l) ==
    IF \E f, g \in FileIds :
          f < g /\ l[f] # None /\ l[g] # None /\ Front(l[f]) = Front(l[g])
    THEN Orders
    ELSE {[f \in FileIds |-> f]}

\* the entries of d that are not folders, in listing order
NonDirs(l, order, d) ==
    LET InD(p) == p # None /\ Len(p) = Len(d) + 1 /\ Front(p) = d
    IN Sorted({p \in Specials \cup OtherFiles : InD(p)})
         \o SelectSeq([i \in 1..NumFiles |-> l[order[i]]], InD)

RECURSIVE Concat(_)
Concat(ss) == IF ss = <<>> THEN <<>> ELSE Head(ss) \o Concat(Tail(ss))

\* os.walk as it would be if it listed the top folder only
WalkTopOnly(l, unread, order, top) ==
    IF top \in unread \/ ~IsDir(l, top) THEN <<>>
    ELSE LET Supported(p) == EndsWithSupported(Last(p))
         IN SelectSeq(NonDirs(l, order, top), Supported)

RECURSIVE Walk(_, _, _, _)
\* the paths os.walk(top) hands to gather_checked, after the extension test
Walk(l, unread, order, top) ==
    IF top \in unread \/ ~IsDir(l, top) THEN <<>>
    ELSE LET Supported(p) == EndsWithSupported(Last(p))
             subdirs == Sorted({d \in Dirs : Len(d) = Len(top) + 1 /\ Front(d) = top})
         IN SelectSeq(NonDirs(l, order, top), Supported)
              \o Concat([i \in 1..Len(subdirs) |-> Walk(l, unread, order, subdirs[i])])

Entry(item, path) == [item |-> item, path |-> path]

RECURSIVE gather_pruned(_, _, _, _, _, _)
\* gather_checked as it would be if an unchecked item ended the descent
gather_pruned(T, l, unread, order, item, ip) ==
    LET path == item.data
        below == Concat([i \in 1..Len(item.kids) |->
                     gather_pruned(T, l, unread, order, item.kids[i], ip \o <<i>>)])
    IN IF path = None \/ item.check # "Checked" THEN <<>>
       ELSE IF IsFile(l, path) /\ EndsWithSupported(Last(path))
            THEN <<Entry(ip, path)>> \o below
            ELSE IF IsDir(l, path)
                 THEN LET found == Walk(l, unread, order, path)
                      IN [i \in 1..Len(found) |->
                             Entry(find_item_by_path(T, found[i]), found[i])]
                 ELSE below

RECURSIVE gather_checked(_, _, _, _, _, _)
gather_checked(T, l, unread, order, item, ip) ==
    LET path == item.data
        below == Concat([i \in 1..Len(item.kids) |->
                     gather_checked(T, l, unread, order, item.kids[i], ip \o <<i>>)])
    IN IF path = None THEN <<>>
       ELSE IF item.check = "Checked"
            THEN IF IsFile(l, path) /\ EndsWithSupported(Last(path))
                 THEN <<Entry(ip, path)>> \o below
                 ELSE IF IsDir(l, path)
                      THEN LET found == Walk(l, unread, order, path)
                           IN [i \in 1..Len(found) |->
                                  Entry(find_item_by_path(T, found[i]), found[i])]
                      ELSE below
            ELSE below

Gather(T, l, unread, order) ==
    Concat([i \in 1..Len(T) |-> gather_checked(T, l, unread, order, T[i], <<i>>)])

(***************************************************************************)
(* The rename loop of rename_files, one entry of to_rename at a time.      *)
(***************************************************************************)
\* the audio file stored at a path, 0 when the path names no audio file
FileAt(l, p) ==
    LET folded == Fold(p)
        stored == {f \in FileIds : l[f] # None /\ Fold(l[f]) = folded}
    IN IF stored = {} THEN 0 ELSE CHOOSE f \in stored : TRUE

\* EasyID3(path) / FLAC(path) / WAVE(path) raising
ReadFails(l, tg, path) == FileAt(l, path) = 0 \/ tg[FileAt(l, path)] = Unreadable

\* ''.join(audio.get("title", [file_name[:-4]]))
TitleOf(l, tg, path) ==
    IF tg[FileAt(l, path)] = NoTitle THEN <<Last(path)[1]>> ELSE tg[FileAt(l, path)]

\* os.path.join(folder, title + ext); a separator in the title opens a new name
JoinTitle(folder, title, ext) ==
    folder \o [i \in 1..Len(title) |-> <<title[i], IF i = Len(title) THEN ext ELSE "">>]

\* the loop as it would be if a skipped entry ended it (break)
AbortRun(i, n) == n + 1

\* continue, lines 171, 174 and 185: the loop goes on with the next entry
Continue(i, n) == i + 1

\* the counter as it would be if every processed entry were counted
CountEveryEntry(n) == n + 1

\* the counter after an entry whose target path already exists
CountAfterSkip(n) == n

\* the counter as it would be if the increment were forgotten
CountForgotten(n) == n

\* the counter after a rename that went through
CountAfterRename(n) == n + 1

\* os.rename(path, new_path) raising without having moved the file: the file
\* is locked or access is denied, the target folder is missing, or (on
\* Windows) the target is already there
RenameRaises(l, new_path, denied) ==
    denied \/ ~IsDir(l, Front(new_path)) \/ Exists(l, new_path)

\* setText and setData on the item of a renamed file, each emitting itemChanged
Relabel(item, new_path) ==
    on_item_changed(on_item_changed([item EXCEPT !.text = Last(new_path), !.data = new_path]))

\* the locals of the last run are gone and the history starts afresh
Reset ==
    /\ to_rename' = <<>>
    /\ idx' = 0
    /\ renamed' = 0
    /\ folders_to_refresh' = {}
    /\ report' = 0
    /\ loc0' = [f \in FileIds |-> None]
    /\ log' = <<>>
    /\ moves' = [f \in FileIds |-> 0]
    /\ ran' = FALSE

(***************************************************************************)
(* Actions.                                                                *)
(***************************************************************************)
Init ==
    /\ tree = <<Item(Last(DriveD), DriveD, "Unchecked", <<Placeholder>>)>>
    /\ loc = [f \in FileIds |-> None]
    /\ tag \in [FileIds -> Tags]
    /\ \A f \in FileIds : tag[f] \in TagsOf(f)
    /\ unreadable \in SUBSET {DirSS}
    /\ pc = "idle"
    /\ to_rename = <<>>
    /\ idx = 0
    /\ renamed = 0
    /\ folders_to_refresh = {}
    /\ report = 0
    /\ loc0 = [f \in FileIds |-> None]
    /\ log = <<>>
    /\ moves = [f \in FileIds |-> 0]
    /\ ran = FALSE

\* the user clicks the check box of a drive, folder or file item
Toggle(ip) ==
    /\ pc = "idle"
    /\ LET item == ItemAt(tree, ip)
       IN /\ item.data # None
          /\ tree' = ReplaceAt(tree, ip,
                         setCheckState(item,
                             IF item.check = "Checked" THEN "Unchecked" ELSE "Checked"))
    /\ Reset
    /\ UNCHANGED <<loc, tag, unreadable, pc>>

\* the user expands an item that shows an expander
Expand(ip) ==
    /\ pc = "idle"
    /\ LET item == ItemAt(tree, ip)
       IN /\ Len(item.kids) > 0
          /\ tree' = ReplaceAt(tree, ip, on_item_expanded(loc, unreadable, item))
    /\ Reset
    /\ UNCHANGED <<loc, tag, unreadable, pc>>

\* another program puts an audio file on the disk
AddFile(f, d) ==
    /\ pc = "idle"
    /\ loc[f] = None
    /\ ~Exists(loc, d \o <<FileName(f)>>)
    /\ loc' = [loc EXCEPT ![f] = d \o <<FileName(f)>>]
    /\ Reset
    /\ UNCHANGED <<tree, tag, unreadable, pc>>

\* rename_files, lines 129-155: the button is clicked and the selection gathered
RenameStart(order) ==
    /\ pc = "idle"
    /\ to_rename' = Gather(tree, loc, unreadable, order)
    /\ folders_to_refresh' = {}
    /\ renamed' = 0
    /\ idx' = 1
    /\ pc' = "loop"
    /\ loc0' = loc
    /\ log' = <<>>
    /\ ran' = TRUE
    /\ UNCHANGED <<tree, loc, tag, unreadable, report, moves>>

\* rename_files, lines 156-185: the body of the loop for entry idx
RenameStep(denied) ==
    /\ pc = "loop"
    /\ idx <= Len(to_rename)
    /\ LET item == to_rename[idx].item
           path == to_rename[idx].path
           folder == Front(path)
           ext == LowerExt(Last(path)[2])
           new_path == JoinTitle(folder, TitleOf(loc, tag, path), ext)
           f == FileAt(loc, path)
       IN IF ext \notin {".mp3", ".flac", ".wav"}
          THEN /\ log' = Append(log, "unsupported")
               /\ idx' = Continue(idx, Len(to_rename))
               /\ UNCHANGED <<tree, loc, renamed, folders_to_refresh, moves>>
          ELSE IF ReadFails(loc, tag, path)
          THEN /\ log' = Append(log, "unread")
               /\ idx' = Continue(idx, Len(to_rename))
               /\ UNCHANGED <<tree, loc, renamed, folders_to_refresh, moves>>
          ELSE IF Exists(loc, new_path)
          THEN /\ log' = Append(log, "exists")
               /\ idx' = idx + 1
               /\ renamed' = CountAfterSkip(renamed)
               /\ UNCHANGED <<tree, loc, folders_to_refresh, moves>>
          ELSE IF RenameRaises(loc, new_path, denied)
          THEN /\ log' = Append(log, "failed")
               /\ idx' = Continue(idx, Len(to_rename))
               /\ UNCHANGED <<tree, loc, renamed, folders_to_refresh, moves>>
          ELSE /\ log' = Append(log, "renamed")
               /\ idx' = idx + 1
               /\ loc' = [loc EXCEPT ![f] = new_path]
               /\ folders_to_refresh' = folders_to_refresh \cup {folder}
               /\ tree' = IF item = NoItem THEN tree
                          ELSE ReplaceAt(tree, item, Relabel(ItemAt(tree, item), new_path))
               /\ renamed' = CountAfterRename(renamed)
               /\ moves' = [moves EXCEPT ![f] = @ + 1]
    /\ UNCHANGED <<tag, unreadable, pc, to_rename, report, loc0, ran>>

\* takeChildren and populate_tree on the item of one folder, when it has one
Refresh(T, l, unread, folder) ==
    LET item == find_item_by_path(T, folder)
    IN IF item = NoItem THEN T
       ELSE ReplaceAt(T, item,
                populate_tree(l, unread, folder, [ItemAt(T, item) EXCEPT !.kids = <<>>]))

RECURSIVE RefreshAll(_, _, _, _)
RefreshAll(T, l, unread, folders) ==
    IF folders = <<>> THEN T
    ELSE RefreshAll(Refresh(T, l, unread, Head(folders)), l, unread, Tail(folders))

\* the orders in which a set can be iterated
Iterations(S) ==
    {s \in [1..Cardinality(S) -> S] : \A i, j \in 1..Cardinality(S) : i # j => s[i] # s[j]}

\* rename_files, lines 187-193: the count is shown and the folders reloaded
RenameFinish(folders) ==
    /\ pc = "loop"
    /\ idx > Len(to_rename)
    /\ report' = renamed
    /\ tree' = RefreshAll(tree, loc, unreadable, folders)
    /\ pc' = "idle"
    /\ UNCHANGED <<loc, tag, unreadable, to_rename, idx, renamed, folders_to_refresh,
                   loc0, log, moves, ran>>

\* the event loop hands one event at a time to its handler; while
\* rename_files runs, no other event is handled
Next ==
    \/ \E ip \in IpsOf(tree) : Toggle(ip)
    \/ \E ip \in IpsOf(tree) : Expand(ip)
    \/ \E f \in FileIds : \E d \in HomesOf(f) : AddFile(f, d)
    \/ \E order \in ListingOrders(loc) : RenameStart(order)
    \/ \E denied \in BOOLEAN : RenameStep(denied)
    \/ \E folders \in Iterations(folders_to_refresh) : RenameFinish(folders)

Spec == Init /\ [][Next]_vars

(***************************************************************************)
(* Properties.                                                             *)
(***************************************************************************)
\* the items below an item that stand for a drive, folder or file
Descendants(item) ==
    {d \in {ItemAt(item.kids, q) : q \in IpsOf(item.kids)} : d.data # None}

ProperPrefixes(ip) == {SubSeq(ip, 1, k) : k \in 1..(Len(ip) - 1)}

\* the selection has just been gathered and no entry processed yet
Gathered == pc = "loop" /\ idx = 1

Listed(path) == \E i \in 1..Len(to_rename) : to_rename[i].path = path

\* the run has ended and nothing has happened since
RunEnded == pc = "idle" /\ ran

\* C1: setting the check state of an item to checked leaves every
\* materialized descendant of the item, at any depth, checked.
CheckReachesDescendants ==
    [][\A ip \in IpsOf(tree) :
          (Toggle(ip) /\ ItemAt(tree, ip).check = "Unchecked")
              => \A d \in Descendants(ItemAt(tree', ip)) : d.check = "Checked"]_vars

\* an unchecked item none of whose ancestors is checked
UncheckedRegion(ip) ==
    /\ ItemAt(tree, ip).check = "Unchecked"
    /\ \A a \in ProperPrefixes(ip) : ItemAt(tree, a).check = "Unchecked"

\* C2 as claimed: no file item lying under an unchecked folder that has no
\* checked ancestor is added to the rename list, even when it is checked.
UncheckedFolderPruned ==
    Gathered =>
        \A ip \in IpsOf(tree) :
            (/\ IsFile(loc, ItemAt(tree, ip).data)
             /\ \E a \in ProperPrefixes(ip) : UncheckedRegion(a))
                => ~Listed(ItemAt(tree, ip).data)

\* the descent of gather_checked gets to the item: no item above it is a
\* checked folder
Reached(ip) ==
    \A a \in ProperPrefixes(ip) :
        ~(ItemAt(tree, a).check = "Checked" /\ ItemAt(tree, a).data \in Dirs)

\* C2 as amended: an unchecked item is not added for itself, but the descent
\* goes on below it: every checked file item with no checked folder above it
\* is in the rename list with its item, also under an unchecked folder, and
\* every path in the list is that of a checked item or lies under the path of
\* a checked folder item.
UncheckedFolderDescended ==
    Gathered =>
        /\ \A ip \in IpsOf(tree) :
              (/\ ItemAt(tree, ip).check = "Checked"
               /\ ItemAt(tree, ip).data \in AudioPaths(loc)
               /\ Reached(ip))
                  => \E i \in 1..Len(to_rename) :
                        to_rename[i] = Entry(ip, ItemAt(tree, ip).data)
        /\ \A i \in 1..Len(to_rename) :
              \E ip \in IpsOf(tree) :
                  /\ ItemAt(tree, ip).check = "Checked"
                  /\ \/ ItemAt(tree, ip).data = to_rename[i].path
                     \/ /\ ItemAt(tree, ip).data \in Dirs
                        /\ IsPrefix(ItemAt(tree, ip).data, to_rename[i].path)

CheckedFileUnderUncheckedFolder ==
    /\ Gathered
    /\ \E ip \in IpsOf(tree) :
          /\ Len(ip) > 1
          /\ ItemAt(tree, ip).check = "Checked"
          /\ ItemAt(tree, ip).data \in AudioPaths(loc)
          /\ UncheckedRegion(Front(ip))
          /\ \E i \in 1..Len(to_rename) : to_rename[i] = Entry(ip, ItemAt(tree, ip).data)

\* the files with a supported extension a walk of the disk finds under a
\* folder: every folder on the way down to the file can be listed
FilesUnder(F) ==
    {q \in AllPaths(loc) \ Dirs :
        /\ Len(q) > Len(F)
        /\ IsPrefix(F, q)
        /\ LowerExt(Last(q)[2]) \in {".mp3", ".flac", ".wav"}
        /\ \A k \in Len(F)..(Len(q) - 1) : SubSeq(q, 1, k) \notin unreadable}

ItemsOf(path) == {ip \in IpsOf(tree) : ItemAt(tree, ip).data = path}

\* C3: for every checked folder item the descent gets to, the rename list
\* holds every supported file found at any depth under the folder on disk,
\* loaded into the tree or not; the entry refers to the file's item when it
\* has one and to no item otherwise.
CheckedFolderWalked ==
    Gathered =>
        \A ip \in IpsOf(tree) :
            (/\ ItemAt(tree, ip).check = "Checked"
             /\ ItemAt(tree, ip).data \in Dirs
             /\ Reached(ip))
                => \A q \in FilesUnder(ItemAt(tree, ip).data) :
                      \E i \in 1..Len(to_rename) :
                          /\ to_rename[i].path = q
                          /\ IF ItemsOf(q) = {} THEN to_rename[i].item = NoItem
                             ELSE to_rename[i].item \in ItemsOf(q)

\* a checked folder was loaded before a file appeared two levels below it:
\* the file has no item and is in the list all the same
FileAddedAfterLoad ==
    /\ Gathered
    /\ \E ip \in IpsOf(tree) :
          /\ ItemAt(tree, ip).check = "Checked"
          /\ ItemAt(tree, ip).data \in Dirs
          /\ Reached(ip)
          /\ Len(ItemAt(tree, ip).kids) > 0
          /\ ItemAt(tree, ip).kids[1].text # LOADING
          /\ \E q \in FilesUnder(ItemAt(tree, ip).data) :
                /\ Len(q) = Len(ItemAt(tree, ip).data) + 2
                /\ ItemsOf(q) = {}
                /\ \E i \in 1..Len(to_rename) : to_rename[i] = Entry(NoItem, q)

\* the entries of a folder that are folders or files with a supported extension
Qualifying(d) ==
    {e \in Entries(loc, d) :
        e \in Dirs \/ (e \in RegularFiles(loc) /\ LowerExt(Last(e)[2]) \in SUPPORTED_EXTS)}

\* kids are one item per member of S, folders first, then by lower-cased name
ExactlySorted(kids, S) ==
    /\ Len(kids) = Cardinality(S)
    /\ {kids[i].data : i \in 1..Len(kids)} = S
    /\ \A i, j \in 1..Len(kids) :
          i < j => /\ kids[j].data \in Dirs => kids[i].data \in Dirs
                   /\ (kids[i].data \in Dirs) = (kids[j].data \in Dirs)
                          => StrLess(Lower(kids[i].text), Lower(kids[j].text))

\* C4: expanding a folder item that holds the placeholder replaces it with
\* one child per entry that is a folder or a file with a supported extension,
\* and no other child, folders first and then by case-insensitive name; a
\* folder that cannot be read gets no child.
ExpandShowsQualifyingOnly ==
    [][\A ip \in IpsOf(tree) :
          (/\ Expand(ip)
           /\ ItemAt(tree, ip).data # None
           /\ ItemAt(tree, ip).kids[1].text = LOADING)
              => IF ItemAt(tree, ip).data \in unreadable
                 THEN ItemAt(tree', ip).kids = <<>>
                 ELSE ExactlySorted(ItemAt(tree', ip).kids,
                                    Qualifying(ItemAt(tree, ip).data))]_vars

\* no two files at one path, and no file where something else is
NothingOverwritten ==
    /\ \A f, g \in FileIds : (f # g /\ loc[f] # None) => Fold(loc[f]) # Fold(loc[g])
    /\ \A f \in FileIds :
          loc[f] # None =>
              \A q \in Dirs \cup Specials \cup OtherFiles : Fold(q) # Fold(loc[f])

\* the entry the loop is about to process names a readable audio file
AtReadableEntry ==
    /\ pc = "loop"
    /\ idx <= Len(to_rename)
    /\ \E f \in FileIds : loc[f] = to_rename[idx].path /\ tag[f] # Unreadable

\* directory + title + extension for the entry at idx
TargetPath ==
    LET path == to_rename[idx].path
        f == CHOOSE g \in FileIds : loc[g] = path
        title == IF tag[f] = NoTitle THEN <<Last(path)[1]>> ELSE tag[f]
    IN Front(path) \o [k \in 1..Len(title) |->
                          <<title[k], IF k < Len(title) THEN "" ELSE LowerExt(Last(path)[2])>>]

TargetTaken == \E q \in AllPaths(loc) : Fold(q) = Fold(TargetPath)

\* C5: a file whose target path exists when it is processed is skipped: no
\* file moves, the count stays, and nothing on disk is ever overwritten.
ExistingTargetSkipped ==
    /\ []NothingOverwritten
    /\ [][(AtReadableEntry /\ TargetTaken) => (loc' = loc /\ renamed' = renamed)]_vars

\* two files of one folder with the same title: the first took the name and
\* the second, processed later, kept its own
SecondOfSameTitleKept ==
    /\ pc = "loop"
    /\ \E i \in 1..Len(log) :
          \E f, g \in FileIds :
              /\ f # g
              /\ log[i] = "exists"
              /\ to_rename[i].path = loc[f]
              /\ loc[f] = loc0[f]
              /\ tag[f] = tag[g]
              /\ tag[f] \in Titles
              /\ loc0[g] # None
              /\ Front(loc0[g]) = Front(loc0[f])
              /\ loc[g] # loc0[g]
              /\ renamed = 1

Changed == {f \in FileIds : loc[f] # loc0[f]}

\* C6: the count shown at the end of a run is the number of files whose path
\* changed during the run; a file whose resolved title is its current name is
\* left alone and not counted, and no entry that moves nothing is counted.
CountIsFilesMoved ==
    [][/\ (pc = "loop" /\ pc' = "idle") => report' = Cardinality(Changed)
       /\ (AtReadableEntry /\ TargetPath = Front(to_rename[idx].path) \o
                                 <<<<Last(to_rename[idx].path)[1],
                                     LowerExt(Last(to_rename[idx].path)[2])>>>>)
              => (loc' = loc /\ renamed' = renamed)
       /\ (pc = "loop" /\ loc' = loc) => renamed' = renamed]_vars

\* one file renamed to its title, one without a title left alone: 1 is shown
OneRenamedOneNoOp ==
    /\ RunEnded
    /\ report = 1
    /\ Cardinality(Changed) = 1
    /\ \E i, j \in 1..Len(log) :
          /\ log[i] = "renamed"
          /\ log[j] = "exists"
          /\ \E f \in FileIds : loc[f] = to_rename[j].path /\ tag[f] = NoTitle

\* C7: over runs made in succession on the same selection, with nothing else
\* happening in between, every file is renamed at most once.
RenamedAtMostOnce == \A f \in FileIds : moves[f] <= 1

\* C8: a file renamed by a run is still in the folder it was in when the
\* run began.
StaysInDirectory ==
    \A f \in FileIds : loc0[f] # None => Front(loc[f]) = Front(loc0[f])

\* the metadata of the entry at idx cannot be read, or the rename of the step
\* was tried and raised
StepFails ==
    /\ pc = "loop"
    /\ idx <= Len(to_rename)
    /\ \/ ~\E f \in FileIds : loc[f] = to_rename[idx].path /\ tag[f] # Unreadable
       \/ log' = Append(log, "failed")

\* a recorded folder that no other recorded folder contains
Outermost(F) ==
    /\ F \in folders_to_refresh
    /\ ~\E G \in folders_to_refresh : G # F /\ IsPrefix(G, F)

\* C9: when the metadata of a file cannot be read or its rename fails, the
\* file, its item and the count are left as they were and the loop goes on
\* with the next entry; every entry of the list is processed, and the run
\* ends by showing the count and reloading the recorded folders.
FailureDoesNotAbort ==
    /\ [][StepFails => /\ loc' = loc
                       /\ tree' = tree
                       /\ renamed' = renamed
                       /\ to_rename' = to_rename
                       /\ pc' = "loop"
                       /\ idx' = idx + 1]_vars
    /\ [](RunEnded =>
            /\ Len(log) = Len(to_rename)
            /\ report = renamed
            /\ \A F \in folders_to_refresh :
                  (Outermost(F) /\ ItemsOf(F) # {} /\ F \notin unreadable)
                      => \A q \in AudioPaths(loc) :
                            Front(q) = F => \E ip \in ItemsOf(F) :
                                               \E k \in 1..Len(ItemAt(tree, ip).kids) :
                                                   ItemAt(tree, ip).kids[k].data = q)

\* a failed entry was followed by one that was renamed, and the run ended
RenamedAfterFailure ==
    /\ RunEnded
    /\ report = 1
    /\ folders_to_refresh # {}
    /\ \E i, j \in 1..Len(log) :
          i < j /\ log[i] \in {"unread", "failed"} /\ log[j] = "renamed"

\* C10: after a run, every folder in which a rename succeeded and that has an
\* item is reloaded: its children are the qualifying entries now on disk and,
\* when the folder's item is checked, every child is checked.
RefreshedLikeExpanded ==
    RunEnded =>
        \A F \in folders_to_refresh :
            \A ip \in ItemsOf(F) :
                /\ ExactlySorted(ItemAt(tree, ip).kids, Qualifying(F))
                /\ ItemAt(tree, ip).check = "Checked"
                      => \A k \in 1..Len(ItemAt(tree, ip).kids) :
                            ItemAt(tree, ip).kids[k].check = "Checked"

====
